---- MODULE Spec2Model ----
(***************************************************************************)
(* Application-command layer of discord/bot.py and                         *)
(* discord/commands/commands.py: the command registry, register_commands   *)
(* (reconciliation against the remote store) and the dispatch pipeline of  *)
(* process_application_commands.                                           *)
(***************************************************************************)
EXTENDS Integers, Sequences, FiniteSets, TLC

VARIABLES
    cmds,                          \* heap of command objects: object -> fields
    pending_application_commands,  \* ApplicationCommandMixin._pending_application_commands
    application_commands,          \* ApplicationCommandMixin._application_commands (remote id -> object)
    key_order,                     \* the keys of _application_commands in the order the dict holds them
    bot,                           \* BotBase: hooks, check lists, debug_guilds
    runs,                          \* one record per interaction being processed
    remote,                        \* the remote command store behind self.http
    sync,                          \* the activation of register_commands: position and locals
    last,                          \* what the last add/remove call returned or raised
    calls,                         \* how many registry calls were made
    func,                          \* the callback the permission decorators are applied to
    objects                        \* a callback's check lists and the commands made from it

registryVars == <<cmds, pending_application_commands, application_commands, key_order, remote, sync,
                  last, calls>>
dispatchVars == <<bot, runs>>
vars == <<cmds, pending_application_commands, application_commands, key_order, bot, runs, remote, sync,
          last, calls, func, objects>>

----------------------------------------------------------------------------
(* Bounds of the model *)

\* Largest number of predicates in each of the three check lists.
MaxChecks == 1
\* Largest number of calls of add_application_command,
\* remove_application_command and register_commands together.
MaxCalls == 4
\* how many overwrites the decorators applied to one callback declare
MaxDecorators == 3
\* how many times copy() is called on the commands of one callback
MaxCopies == 3

----------------------------------------------------------------------------
(* Exceptions: a class name and, for ApplicationCommandInvokeError, the    *)
(* class of the wrapped exception.                                         *)

Exc(cls, original) == [cls |-> cls, original |-> original]
NoExc == Exc("None", "None")

\* commands/errors.py: ApplicationCommandError(DiscordException) and its subclasses.
ApplicationCommandErrors == {"ApplicationCommandError", "CheckFailure", "ApplicationCommandInvokeError"}
IsApplicationCommandError(e) == e.cls \in ApplicationCommandErrors
\* DiscordException and everything below it (Forbidden stands for the rest of errors.py).
IsDiscordException(e) == e.cls \in ApplicationCommandErrors \cup {"DiscordException", "Forbidden"}
\* asyncio.CancelledError derives from BaseException, not Exception.
IsException(e) == e.cls \notin {"None", "CancelledError"}

\* ApplicationCommandInvokeError(e): keeps the wrapped exception in .original
ApplicationCommandInvokeError(e) == Exc("ApplicationCommandInvokeError", e.cls)

\* What a user-supplied coroutine may raise: a framework error derived from
\* ApplicationCommandError, another DiscordException, an ordinary exception,
\* or the cancellation of the task awaiting it.
Raises == {"CheckFailure", "DiscordException", "ValueError", "CancelledError"}
HookOutcomes == {"ok"} \cup Raises
CheckOutcomes == {"True", "False"} \cup Raises

----------------------------------------------------------------------------
(* Command objects *)

NoCog == [present |-> FALSE, cog_before_invoke |-> FALSE, cog_command_error |-> FALSE]
\* A cog and which of its hooks _get_overridden_method finds overridden.
Cogs == {NoCog} \cup [present : {TRUE}, cog_before_invoke : BOOLEAN, cog_command_error : BOOLEAN]

\* SlashCommand.__init__: no hooks, no error handler, no cog, no id attribute
\* (id 0 stands for "the object has no id yet").
SlashCommand(name, scoped, guild_ids, permissions, checks) ==
    [ name |-> name, type |-> 1, scoped |-> scoped, guild_ids |-> guild_ids,
      id |-> 0, permissions |-> permissions, checks |-> checks,
      before_invoke |-> FALSE, after_invoke |-> FALSE, attrs |-> {}, cog |-> NoCog ]

\* ApplicationCommand.error(coro): stores the handler as attribute on_error.
error(c) == [c EXCEPT !.attrs = @ \cup {"on_error"}]
\* ApplicationCommand.has_error_handler
has_error_handler(c) == "on_error" \in c.attrs
\* ApplicationCommand.before_invoke(coro) / after_invoke(coro)
before_invoke(c) == [c EXCEPT !.before_invoke = TRUE]
after_invoke(c) == [c EXCEPT !.after_invoke = TRUE]

----------------------------------------------------------------------------
(* Permission overwrites (commands/permissions.py) *)

\* Permission.__init__: id is an int, or a str naming a role or "owner"
\* (symbolic); guild_id 0 stands for None.
Permission(id, symbolic, type, permission, guild_id) ==
    [id |-> id, symbolic |-> symbolic, type |-> type, permission |-> permission,
     guild_id |-> guild_id]

\* Permission.to_dict drops guild_id
permission_to_dict(perm) ==
    [id |-> perm.id, symbolic |-> perm.symbolic, type |-> perm.type,
     permission |-> perm.permission]

Range(seq) == { seq[k] : k \in 1..Len(seq) }

\* no list object: the attribute or the keyword argument is absent
NoList == 0
\* lists is the heap of list objects (reference -> elements);
\* commands_checks is the list func.__commands_checks__ refers to,
\* kwargs_checks the list under 'checks' in __original_kwargs__; commands
\* are the command objects made from the callback, the original first,
\* each with the list its attribute checks refers to; initial keeps the
\* original's checks as they were when it was constructed.
NoObjects == [lists |-> <<>>, commands_checks |-> NoList, kwargs_checks |-> NoList,
              commands |-> <<>>, initial |-> <<>>]
\* a command object as __init__ leaves it: no hooks, no error handler
NewCommand(ref) == [checks |-> ref, before_invoke |-> FALSE, after_invoke |-> FALSE, attrs |-> {}]

\* list.reverse()
Reverse(s) == [k \in 1..Len(s) |-> s[Len(s) + 1 - k]]

\* SlashCommand.__init__, lines 239-248: the list of the callback is
\* reversed in place and becomes self.checks; without the attribute
\* self.checks is the list passed as 'checks', or a new empty list
SlashCommand_init(h) ==
    IF h.commands_checks # NoList
    THEN [h EXCEPT !.lists[h.commands_checks] = Reverse(@),
                   !.commands = Append(@, NewCommand(h.commands_checks))]
    ELSE IF h.kwargs_checks # NoList
    THEN [h EXCEPT !.commands = Append(@, NewCommand(h.kwargs_checks))]
    ELSE [h EXCEPT !.lists = Append(@, <<>>),
                   !.commands = Append(@, NewCommand(Len(h.lists) + 1))]

\* _ensure_assignment_on_copy(self, other)
ensure_assignment_on_copy(h, self, other) ==
    LET s == h.commands[self]
        o == h.commands[other]
        h1 == [h EXCEPT !.commands[other].before_invoke = s.before_invoke,
                        !.commands[other].after_invoke = s.after_invoke]
        h2 == IF h.lists[s.checks] # h.lists[o.checks]
              THEN [h1 EXCEPT !.lists = Append(@, h.lists[s.checks]),
                              !.commands[other].checks = Len(h.lists) + 1]
              ELSE h1
    IN  IF has_error_handler(s) THEN [h2 EXCEPT !.commands[other] = error(@)] ELSE h2

\* SlashCommand.copy(self)
copy(h, self) ==
    ensure_assignment_on_copy(SlashCommand_init(h), self, Len(h.commands) + 1)

\* a callback: has tells whether it has the attribute __app_cmd_perms__,
\* perms is the list the attribute holds. declared lists the overwrites the
\* decorator applications so far asked for, in application order; pc tells
\* whether it is still a function, was made a command, or a decorator raised.
NoFunc == [has |-> FALSE, perms |-> <<>>, declared |-> <<>>, pc |-> "function"]

\* the argument None of a decorator
None == "None"
\* the overwrite for an id argument: a str id is symbolic
PermissionFor(item, type, allow, guild_id) ==
    Permission(item.id, item.symbolic, type, allow, guild_id)
AppendPerm(f, perm) == [f EXCEPT !.has = TRUE, !.perms = Append(@, perm)]

\* permission(role_id, user_id, permission, guild_id)(func): the attribute
\* tested is __app_cm_perms__, which no function has, so the list
\* __app_cmd_perms__ is set to [] on every application
permission_decorator(f, role_id, user_id, allow, guild_id) ==
    IF role_id # None
    THEN AppendPerm([f EXCEPT !.perms = <<>>], Permission(role_id, FALSE, 1, allow, guild_id))
    ELSE IF user_id # None
    THEN AppendPerm([f EXCEPT !.perms = <<>>], Permission(user_id, FALSE, 2, allow, guild_id))
    ELSE [f EXCEPT !.pc = "ValueError"]

\* has_role(item, guild_id)(func): the append is inside the hasattr test
has_role(f, item, guild_id) ==
    IF ~f.has THEN AppendPerm([f EXCEPT !.perms = <<>>], PermissionFor(item, 1, TRUE, guild_id))
    ELSE f

\* has_any_role(*items, guild_id)(func) from the k-th item on
RECURSIVE has_any_role(_, _, _, _)
has_any_role(f, items, guild_id, k) ==
    IF k > Len(items) THEN [f EXCEPT !.has = TRUE]
    ELSE has_any_role(AppendPerm(f, PermissionFor(items[k], 1, TRUE, guild_id)),
                      items, guild_id, k + 1)

\* is_user(user, guild_id)(func): the append is inside the hasattr test
is_user(f, user, guild_id) ==
    IF ~f.has THEN AppendPerm([f EXCEPT !.perms = <<>>], Permission(user, FALSE, 2, TRUE, guild_id))
    ELSE f

\* is_owner(guild_id)(func)
is_owner(f, guild_id) == AppendPerm(f, Permission("owner", TRUE, 2, TRUE, guild_id))

\* SlashCommand.__init__, line 252: the permissions of the command made
\* from the callback
command_permissions(f, kwargs_permissions) ==
    (IF f.has THEN f.perms ELSE <<>>) \o kwargs_permissions

----------------------------------------------------------------------------
(* The environment of register_commands: guilds, roles, application info   *)
(* and the remote command store.                                           *)

\* the guilds fetch_guilds enumerates, in its order
Guilds == <<1, 2>>
\* guild.roles of each guild
Roles(g) == IF g = 1 THEN <<[id |-> "r11", name |-> "Admin"]>> ELSE <<>>
\* application_info(): owned by one user, or by a team
Apps == { [team |-> <<>>, owner |-> "u1"],
          [team |-> <<"u2", "u3", "u4">>, owner |-> "u2"] }

\* bulk upsert of the payloads from the k-th on against the stored list:
\* a payload carrying an id updates that command; a payload without one gets
\* the id of a stored command of the same name and type when the store
\* matches by name, and a newly assigned id otherwise. The answer lists one
\* command per payload, in payload order, and replaces the stored list.
RECURSIVE bulk_upsert(_, _, _, _, _, _, _)
bulk_upsert(store, by_name, guild_id, payloads, k, acc, next_id) ==
    IF k > Len(payloads) THEN [response |-> acc, next_id |-> next_id]
    ELSE
      LET p == payloads[k]
          used == { acc[j].id : j \in 1..Len(acc) }
          same == SelectSeq(store, LAMBDA x : x.name = p.name /\ x.type = p.type /\ x.id \notin used)
          id == IF p.id # 0 THEN p.id
                ELSE IF by_name /\ Len(same) > 0 THEN same[1].id
                ELSE next_id
          i == [id |-> id, name |-> p.name, type |-> p.type, guild_id |-> guild_id]
      IN  bulk_upsert(store, by_name, guild_id, payloads, k + 1, Append(acc, i),
                      IF id = next_id THEN next_id + 1 ELSE next_id)

----------------------------------------------------------------------------
(* The registry (ApplicationCommandMixin) *)

\* ten overwrites with integer-like ids, which resolution passes through
UserOverwrites ==
    [ k \in 1..10 |->
        Permission(<<"v1", "v2", "v3", "v4", "v5", "v6", "v7", "v8", "v9", "v10">>[k],
                   FALSE, 2, TRUE, 0) ]

\* the commands the application declares
Declared ==
    { SlashCommand("a", FALSE, <<>>, <<>>, 0),
      SlashCommand("b", FALSE, <<>>, <<Permission("owner", TRUE, 2, TRUE, 0)>>, 0),
      SlashCommand("a", TRUE, <<2>>, <<Permission("r7", FALSE, 1, FALSE, 2)>>, 0),
      SlashCommand("c", TRUE, <<1, 2>>, <<Permission("Admin", TRUE, 1, TRUE, 0)>> \o UserOverwrites, 0),
      SlashCommand("d", TRUE, <<9>>, <<>>, 0),
      SlashCommand("e", FALSE, <<>>, <<Permission("bob", TRUE, 2, TRUE, 0),
                                       Permission("v1", FALSE, 2, TRUE, 1)>>, 0) }

NoSnapshot == [valid |-> FALSE, ids |-> <<>>, keys |-> {}, remote |-> <<>>]
\* the local app before application_info() was awaited
NoApp == [team |-> <<>>, owner |-> "None"]
\* no register_commands activation
IdleSync ==
    [ pc |-> "idle", exc |-> "None", k |-> 0,
      commands |-> <<>>, cmds |-> <<>>, global_permissions |-> <<>>,
      update_guild_commands |-> <<>>, cmd |-> 0,
      guild_permissions |-> <<>>, app |-> NoApp,
      calls |-> <<>>, diagnostics |-> {}, before |-> NoSnapshot ]

Returned(op, value) == [op |-> op, raised |-> "None", value |-> value]
Raised(op, exc) == [op |-> op, raised |-> exc, value |-> 0]

\* Mutant of add_application_command: the debug guilds are not applied.
add_application_command_without_debug_guilds(c) ==
    /\ sync.pc # "guilds"
    /\ calls < MaxCalls
    /\ calls' = calls + 1
    /\ cmds' = Append(cmds, c)
    /\ pending_application_commands' = Append(pending_application_commands, Len(cmds) + 1)
    /\ sync' = IdleSync
    /\ last' = Returned("add_application_command", 0)
    /\ UNCHANGED <<application_commands, key_order, remote, dispatchVars, func, objects>>

\* add_application_command(command)
add_application_command(c) ==
    /\ sync.pc # "guilds"
    /\ calls < MaxCalls
    /\ calls' = calls + 1
    /\ LET command == IF bot.debug_guilds # <<>> /\ ~c.scoped
                      THEN [c EXCEPT !.scoped = TRUE, !.guild_ids = bot.debug_guilds]
                      ELSE c
       IN  /\ cmds' = Append(cmds, command)
           /\ pending_application_commands' = Append(pending_application_commands, Len(cmds) + 1)
    /\ sync' = IdleSync
    /\ last' = Returned("add_application_command", 0)
    /\ UNCHANGED <<application_commands, key_order, remote, dispatchVars, func, objects>>

\* remove_application_command(command): self._application_commands.pop(command.id)
\* on a command object o; a command that was never written back has no id
\* attribute. last keeps the argument next to what the call returned or raised.
remove_application_command(o) ==
    /\ sync.pc # "guilds"
    /\ calls < MaxCalls
    /\ calls' = calls + 1
    /\ IF cmds[o].id = 0
       THEN /\ last' = Raised("remove_application_command", "AttributeError") @@ [command |-> o]
            /\ UNCHANGED <<application_commands, key_order>>
       ELSE IF cmds[o].id \notin DOMAIN application_commands
       THEN /\ last' = Raised("remove_application_command", "KeyError") @@ [command |-> o]
            /\ UNCHANGED <<application_commands, key_order>>
       ELSE /\ last' = Returned("remove_application_command", application_commands[cmds[o].id])
                         @@ [command |-> o]
            /\ application_commands' =
                 [id \in DOMAIN application_commands \ {cmds[o].id} |-> application_commands[id]]
            /\ key_order' = SelectSeq(key_order, LAMBDA id : id # cmds[o].id)
    /\ sync' = IdleSync
    /\ UNCHANGED <<cmds, pending_application_commands, remote, dispatchVars, func, objects>>

\* the argument guild_ids of get_application_command: None, or a list
NoGuildIds == [given |-> FALSE, ids |-> <<>>]
GuildIds(ids) == [given |-> TRUE, ids |-> ids]
\* the lookups the application makes
Lookups == {"a", "c"} \X {NoGuildIds, GuildIds(<<2>>), GuildIds(<<1, 2>>)}

\* get_application_command, the loop over self._application_commands.values()
\* from the k-th value on, in the order of the dict; every command is a
\* SlashCommand, the default of the argument type. A command declared
\* without guild_ids has guild_ids None, which differs from every list.
\* 0 for None.
RECURSIVE get_application_command_values(_, _, _)
get_application_command_values(k, name, guild_ids) ==
    IF k > Len(key_order) THEN 0
    ELSE LET command == cmds[application_commands[key_order[k]]]
         IN  IF command.name = name
             THEN IF guild_ids.given /\ (~command.scoped \/ command.guild_ids # guild_ids.ids)
                  THEN 0
                  ELSE application_commands[key_order[k]]
             ELSE get_application_command_values(k + 1, name, guild_ids)

\* get_application_command(name, guild_ids); last keeps the arguments next
\* to the command returned.
get_application_command(name, guild_ids) ==
    /\ sync.pc # "guilds"
    /\ calls < MaxCalls
    /\ calls' = calls + 1
    /\ last' = Returned("get_application_command",
                        get_application_command_values(1, name, guild_ids))
                 @@ [name |-> name, guild_ids |-> guild_ids]
    /\ sync' = IdleSync
    /\ UNCHANGED <<cmds, pending_application_commands, application_commands, key_order, remote,
                   dispatchVars, func, objects>>

----------------------------------------------------------------------------
(* register_commands *)

\* SlashCommand.to_dict, reduced to what the remote store matches on: the
\* name, and the type the store gives a payload without a "type" key (1,
\* which is SlashCommand.type). The payload carries no id (0) unless
\* register_commands adds one.
command_to_dict(c) == [name |-> c.name, type |-> c.type, id |-> 0]

\* Mutant of global_payloads: a payload takes the id of the first fetched
\* command whatever its name.
global_payloads_first_registered(heap, pending, registered) ==
    LET globals == SelectSeq(pending, LAMBDA o : ~heap[o].scoped)
    IN  [ k \in 1..Len(globals) |->
            IF Len(registered) > 0
            THEN [command_to_dict(heap[globals[k]]) EXCEPT !.id = registered[1].id]
            ELSE command_to_dict(heap[globals[k]]) ]

\* lines 100-113: the payloads of the pending commands without guild_ids,
\* each carrying the id of the first registered command of its name and type
global_payloads(heap, pending, registered) ==
    LET globals == SelectSeq(pending, LAMBDA o : ~heap[o].scoped)
    IN  [ k \in 1..Len(globals) |->
            LET c == heap[globals[k]]
                matches == SelectSeq(registered, LAMBDA x : x.name = c.name /\ x.type = c.type)
            IN  IF Len(registered) > 0 /\ Len(matches) > 0
                THEN [command_to_dict(c) EXCEPT !.id = matches[1].id]
                ELSE command_to_dict(c) ]

\* utils.get(pending, name=, guild_ids=None, type=): the first match, 0 for None
get(heap, pending, name, type) ==
    LET found == SelectSeq(pending, LAMBDA o : heap[o].name = name /\ ~heap[o].scoped
                                                /\ heap[o].type = type)
    IN  IF Len(found) > 0 THEN found[1] ELSE 0

\* Mutant of global_writeback: the returned id is assigned to the command
\* but the command is not stored in _application_commands.
RECURSIVE global_writeback_not_stored(_, _, _, _)
global_writeback_not_stored(st, pending, cmds_, k) ==
    IF k > Len(cmds_) \/ st.exc # "None" THEN st
    ELSE
      LET i == cmds_[k]
          o == get(st.heap, pending, i.name, i.type)
      IN  IF o = 0 THEN [st EXCEPT !.exc = "AttributeError"]
          ELSE global_writeback_not_stored(
                 [st EXCEPT !.heap[o].id = i.id,
                            !.cmd = o,
                            !.global_permissions =
                               Append(@, [id |-> i.id, permissions |-> st.heap[o].permissions])],
                 pending, cmds_, k + 1)

\* st holds what the write-back loops change: the heap, the registry, the
\* locals global_permissions / guild_permissions / cmd, and the exception
\* that ended the loop.
\* lines 117-128: the write-back of the global upsert's answer from the k-th on
RECURSIVE global_writeback(_, _, _, _)
global_writeback(st, pending, cmds_, k) ==
    IF k > Len(cmds_) \/ st.exc # "None" THEN st
    ELSE
      LET i == cmds_[k]
          o == get(st.heap, pending, i.name, i.type)
      IN  IF o = 0 THEN [st EXCEPT !.exc = "AttributeError"]
          ELSE global_writeback(
                 [st EXCEPT !.heap[o].id = i.id,
                            !.registry = (i.id :> o) @@ @,
                            !.cmd = o,
                            !.global_permissions =
                               Append(@, [id |-> i.id, permissions |-> st.heap[o].permissions])],
                 pending, cmds_, k + 1)

\* lines 130-141: the payload list of every fetched guild
update_guild_commands(heap, pending) ==
    [ g \in Range(Guilds) |->
        LET scoped == SelectSeq(pending, LAMBDA o : heap[o].scoped /\ g \in Range(heap[o].guild_ids))
        IN  [ k \in 1..Len(scoped) |-> command_to_dict(heap[scoped[k]]) ] ]

\* Mutant of UnknownGuild: a guild id that was not listed gets a payload
\* list of its own.
UnknownGuild_accepted(heap, pending) == FALSE

\* line 140: a guild id of a pending command that fetch_guilds did not list
UnknownGuild(heap, pending) ==
    \E k \in 1..Len(pending) :
        heap[pending[k]].scoped /\ ~(Range(heap[pending[k]].guild_ids) \subseteq Range(Guilds))

\* line 158, utils.find over the pending commands from the k-th on: the
\* first one of that name and type whose guild_ids hold the guild; the test
\* "in cmd.guild_ids" raises TypeError (-1) on a command whose guild_ids is
\* None; 0 for None
RECURSIVE find(_, _, _, _)
find(heap, pending, i, k) ==
    IF k > Len(pending) THEN 0
    ELSE LET c == heap[pending[k]]
         IN  IF c.name = i.name /\ c.type = i.type
             THEN IF ~c.scoped THEN -1
                  ELSE IF i.guild_id \in Range(c.guild_ids) THEN pending[k]
                  ELSE find(heap, pending, i, k + 1)
             ELSE find(heap, pending, i, k + 1)

\* lines 163-170: the overwrites of a guild command that apply to the guild
guild_command_permissions(c, guild_id) ==
    LET kept == SelectSeq(c.permissions,
                  LAMBDA perm : perm.guild_id = 0
                                \/ (perm.guild_id = guild_id /\ perm.guild_id \in Range(c.guild_ids)))
    IN  [ k \in 1..Len(kept) |-> permission_to_dict(kept[k]) ]

\* lines 157-173: the write-back of one guild's answer from the k-th on
RECURSIVE guild_writeback(_, _, _, _, _)
guild_writeback(st, pending, cmds_, guild_id, k) ==
    IF k > Len(cmds_) \/ st.exc # "None" THEN st
    ELSE
      LET i == cmds_[k]
          o == find(st.heap, pending, i, 1)
      IN  IF o = -1 THEN [st EXCEPT !.exc = "TypeError"]
          ELSE IF o = 0 THEN [st EXCEPT !.exc = "AttributeError"]
          ELSE guild_writeback(
                 [st EXCEPT !.heap[o].id = i.id,
                            !.registry = (i.id :> o) @@ @,
                            !.cmd = o,
                            !.guild_permissions =
                               Append(@, [id |-> i.id,
                                          permissions |-> guild_command_permissions(st.heap[o], guild_id)])],
                 pending, cmds_, guild_id, k + 1)

\* lines 175-186: the overwrites of the global commands for this guild; the
\* test reads cmd, the variable the write-back loops assigned last
global_command_permissions(st, guild_id) ==
    LET cmd == st.heap[st.cmd]
        raises == \E k \in 1..Len(st.global_permissions) :
                    \E perm \in Range(st.global_permissions[k].permissions) :
                       perm.guild_id = guild_id /\ ~cmd.scoped
        entry(g) ==
          LET kept == SelectSeq(g.permissions,
                        LAMBDA perm : perm.guild_id = 0
                                      \/ (perm.guild_id = guild_id
                                          /\ perm.guild_id \in Range(cmd.guild_ids)))
          IN  [id |-> g.id, permissions |-> [ k \in 1..Len(kept) |-> permission_to_dict(kept[k]) ]]
    IN  IF st.global_permissions = <<>> THEN st
        ELSE IF raises THEN [st EXCEPT !.exc = "TypeError"]
        ELSE [st EXCEPT !.guild_permissions =
                 @ \o [ k \in 1..Len(st.global_permissions) |-> entry(st.global_permissions[k]) ]]

\* Mutant of resolve_permission: "owner" always resolves to the owner of the
\* application, also when the application has a team.
resolve_permission_owner_only(permission, roles, app) ==
    IF permission.symbolic
    THEN IF permission.type = 1
         THEN LET role == SelectSeq(roles, LAMBDA x : x.name = permission.id)
              IN  IF Len(role) > 0
                  THEN <<[id |-> role[1].id, symbolic |-> FALSE, type |-> 1,
                          permission |-> permission.permission]>>
                  ELSE <<>>
         ELSE IF permission.type = 2 /\ permission.id = "owner"
         THEN <<[id |-> app.owner, symbolic |-> FALSE, type |-> 2,
                 permission |-> permission.permission]>>
         ELSE <<>>
    ELSE <<permission>>

\* lines 197-245: one overwrite with its role name or "owner" replaced; an
\* unknown role name yields nothing
resolve_permission(permission, roles, app) ==
    IF permission.symbolic
    THEN IF permission.type = 1
         THEN LET role == SelectSeq(roles, LAMBDA x : x.name = permission.id)
              IN  IF Len(role) > 0
                  THEN <<[id |-> role[1].id, symbolic |-> FALSE, type |-> 1,
                          permission |-> permission.permission]>>
                  ELSE <<>>
         ELSE IF permission.type = 2 /\ permission.id = "owner"
         THEN IF app.team # <<>>
              THEN [ m \in 1..Len(app.team) |->
                       [id |-> app.team[m], symbolic |-> FALSE, type |-> 2,
                        permission |-> permission.permission] ]
              ELSE <<[id |-> app.owner, symbolic |-> FALSE, type |-> 2,
                      permission |-> permission.permission]>>
         ELSE <<>>
    ELSE <<permission>>

RECURSIVE resolve_permissions(_, _, _, _)
resolve_permissions(permissions, roles, app, k) ==
    IF k > Len(permissions) THEN <<>>
    ELSE resolve_permission(permissions[k], roles, app)
           \o resolve_permissions(permissions, roles, app, k + 1)

\* Mutant of new_cmd_perm: the last 10 overwrites are kept instead of the
\* first 10.
new_cmd_perm_last_10(item, roles, app) ==
    LET permissions == resolve_permissions(item.permissions, roles, app, 1)
    IN  [id |-> item.id,
         permissions |-> IF Len(permissions) > 10
                         THEN SubSeq(permissions, Len(permissions) - 9, Len(permissions))
                         ELSE permissions]

\* lines 193-258: the entry sent for one command: resolved, then cut to the
\* first 10 overwrites
new_cmd_perm(item, roles, app) ==
    LET permissions == resolve_permissions(item.permissions, roles, app, 1)
    IN  [id |-> item.id,
         permissions |-> IF Len(permissions) > 10 THEN SubSeq(permissions, 1, 10)
                         ELSE permissions]

guild_cmd_perms(guild_permissions, roles, app) ==
    [ k \in 1..Len(guild_permissions) |-> new_cmd_perm(guild_permissions[k], roles, app) ]

\* the diagnostics printed while resolving: unknown role names, truncations
diagnostics(guild_permissions, guild_id, roles, app) ==
    LET missing(item) ==
          SelectSeq(item.permissions,
            LAMBDA x : x.symbolic /\ x.type = 1
                       /\ Len(SelectSeq(roles, LAMBDA y : y.name = x.id)) = 0)
    IN  { <<"No Role ID found", guild_id, guild_permissions[k].id>> :
            k \in { j \in 1..Len(guild_permissions) : Len(missing(guild_permissions[j])) > 0 } }
        \cup
        { <<"more than 10 permission overrides", guild_id, guild_permissions[k].id>> :
            k \in { j \in 1..Len(guild_permissions) :
                      Len(resolve_permissions(guild_permissions[j].permissions, roles, app, 1)) > 10 } }

\* lines 222-225: some overwrite of the guild is a user overwrite with the
\* id "owner", so application_info() is awaited
awaits_application_info(guild_permissions) ==
    \E j \in 1..Len(guild_permissions) :
      \E x \in Range(guild_permissions[j].permissions) :
        x.symbolic /\ x.type = 2 /\ x.id = "owner"

Call(call, guild_id, payload, outcome, response) ==
    [call |-> call, guild |-> guild_id, payload |-> payload, outcome |-> outcome,
     response |-> response]

\* the key order of _application_commands after a write-back loop went
\* through the ids of an answer: a key that is new to the dict is appended
\* when it is first stored, a key the dict holds keeps its place
RECURSIVE dict_keys(_, _, _)
dict_keys(order, ids, registry) ==
    IF ids = <<>> THEN order
    ELSE dict_keys(IF Head(ids) \in DOMAIN registry /\ Head(ids) \notin Range(order)
                   THEN Append(order, Head(ids)) ELSE order,
                   Tail(ids), registry)

\* what two runs in succession are compared on
Snapshot == [ valid |-> TRUE,
              ids |-> [o \in 1..Len(cmds) |-> cmds[o].id],
              keys |-> DOMAIN application_commands,
              remote |-> <<Len(remote.globals)>>
                           \o [k \in 1..Len(Guilds) |-> Len(remote.guilds[Guilds[k]])] ]

\* register_commands, lines 94-141: the global reconciliation and the
\* payload lists of the guilds. outcome is what the global bulk upsert does.
register_commands_global(outcome) ==
    /\ sync.pc # "guilds"
    /\ calls < MaxCalls
    /\ calls' = calls + 1
    /\ LET start == [IdleSync EXCEPT !.before = IF sync.pc = "returned" THEN Snapshot ELSE NoSnapshot]
           registered_commands == remote.globals
           commands == global_payloads(cmds, pending_application_commands, registered_commands)
           answer == bulk_upsert(remote.globals, remote.by_name, 0, commands, 1, <<>>, remote.next_id)
           st == global_writeback(
                   [heap |-> cmds, registry |-> application_commands, cmd |-> 0,
                    global_permissions |-> <<>>, guild_permissions |-> <<>>, exc |-> "None"],
                   pending_application_commands, answer.response, 1)
           called == <<Call("get_global_commands", 0, <<>>, "ok", registered_commands)>>
       IN
       IF outcome = "Forbidden"
       THEN /\ sync' = [start EXCEPT !.pc = "raised", !.exc = "Forbidden", !.commands = commands,
                          !.calls = Append(called, Call("bulk_upsert_global_commands", 0, commands,
                                                        "Forbidden", <<>>))]
            /\ UNCHANGED <<cmds, application_commands, key_order, remote>>
       ELSE /\ remote' = [remote EXCEPT !.globals = answer.response,
                                        !.next_id = answer.next_id]
            /\ cmds' = st.heap
            /\ application_commands' = st.registry
            /\ key_order' = dict_keys(key_order,
                                      [k \in 1..Len(answer.response) |-> answer.response[k].id],
                                      st.registry)
            /\ LET s1 == [start EXCEPT !.commands = commands, !.cmds = answer.response,
                            !.global_permissions = st.global_permissions, !.cmd = st.cmd,
                            !.calls = Append(called, Call("bulk_upsert_global_commands", 0, commands,
                                                          "ok", answer.response))]
               IN  sync' =
                     IF st.exc # "None" THEN [s1 EXCEPT !.pc = "raised", !.exc = st.exc]
                     ELSE IF UnknownGuild(st.heap, pending_application_commands)
                     THEN [s1 EXCEPT !.pc = "raised", !.exc = "KeyError"]
                     ELSE [s1 EXCEPT !.pc = "guilds", !.k = 1,
                              !.update_guild_commands =
                                 update_guild_commands(st.heap, pending_application_commands)]
    /\ UNCHANGED <<pending_application_commands, last, dispatchVars, func, objects>>

\* after one pass of the loop over the guilds: the next guild, or the end
next_guild(s) ==
    IF s.k < Len(Guilds) THEN [s EXCEPT !.k = @ + 1] ELSE [s EXCEPT !.pc = "returned"]

\* Mutant of guild_forbidden: a guild whose command upsert is Forbidden is
\* skipped whether or not it had payloads.
guild_forbidden_always_skipped(s, guild_data, called) ==
    IF s.k < Len(Guilds) THEN [s EXCEPT !.k = @ + 1, !.calls = called]
    ELSE [s EXCEPT !.pc = "returned", !.calls = called]

\* Mutant of permissions_forbidden: the permission upsert is treated like
\* the command upsert, skipped for a guild without payloads.
permissions_forbidden_like_commands(s, guild_data, called) ==
    IF guild_data # <<>> THEN [s EXCEPT !.pc = "raised", !.exc = "Forbidden", !.calls = called]
    ELSE IF s.k < Len(Guilds) THEN [s EXCEPT !.k = @ + 1, !.calls = called]
    ELSE [s EXCEPT !.pc = "returned", !.calls = called]

\* lines 151-155: Forbidden from the command upsert of a guild
guild_forbidden(s, guild_data, called) ==
    IF guild_data = <<>> THEN next_guild([s EXCEPT !.calls = called])
    ELSE [s EXCEPT !.pc = "raised", !.exc = "Forbidden", !.calls = called]

\* lines 261-270: Forbidden from the permission upsert of a guild
permissions_forbidden(s, guild_data, called) ==
    [s EXCEPT !.pc = "raised", !.exc = "Forbidden", !.calls = called]

\* register_commands, lines 143-270: one pass of the loop over the guilds.
\* outcome is what the two remote calls of the pass do, app what
\* application_info() answers.
register_commands_guild(outcome, app) ==
    /\ sync.pc = "guilds"
    /\ LET guild_id == Guilds[sync.k]
           guild_data == sync.update_guild_commands[guild_id]
           answer == bulk_upsert(remote.guilds[guild_id], remote.by_name, guild_id, guild_data,
                                 1, <<>>, remote.next_id)
           w == guild_writeback(
                   [heap |-> cmds, registry |-> application_commands, cmd |-> sync.cmd,
                    global_permissions |-> sync.global_permissions,
                    guild_permissions |-> <<>>, exc |-> "None"],
                   pending_application_commands, answer.response, guild_id, 1)
           st == IF w.exc # "None" THEN w ELSE global_command_permissions(w, guild_id)
           roles == Roles(guild_id)
           payload == guild_cmd_perms(st.guild_permissions, roles, app)
           upserted == Append(sync.calls, Call("bulk_upsert_guild_commands", guild_id, guild_data,
                                               "ok", answer.response))
           s1 == [sync EXCEPT !.cmds = answer.response, !.cmd = st.cmd, !.calls = upserted]
       IN
       IF outcome = "ForbiddenCommands"
       THEN /\ sync' = guild_forbidden(sync, guild_data,
                          Append(sync.calls, Call("bulk_upsert_guild_commands", guild_id,
                                                  guild_data, "Forbidden", <<>>)))
            /\ UNCHANGED <<cmds, application_commands, key_order, remote>>
       ELSE /\ remote' = [remote EXCEPT !.guilds[guild_id] = answer.response,
                                        !.next_id = answer.next_id]
            /\ cmds' = st.heap
            /\ application_commands' = st.registry
            /\ key_order' = dict_keys(key_order,
                                      [k \in 1..Len(answer.response) |-> answer.response[k].id],
                                      st.registry)
            /\ sync' =
                 IF st.exc # "None" THEN [s1 EXCEPT !.pc = "raised", !.exc = st.exc]
                 ELSE LET s2 == [s1 EXCEPT !.diagnostics =
                                   @ \cup diagnostics(st.guild_permissions, guild_id, roles, app),
                                 !.guild_permissions = st.guild_permissions,
                                 !.app = IF awaits_application_info(st.guild_permissions)
                                         THEN app ELSE @]
                      IN  IF outcome = "ForbiddenPermissions"
                          THEN permissions_forbidden(s2, guild_data,
                                 Append(upserted, Call("bulk_upsert_command_permissions", guild_id,
                                                       payload, "Forbidden", <<>>)))
                          ELSE next_guild([s2 EXCEPT !.calls =
                                 Append(upserted, Call("bulk_upsert_command_permissions", guild_id,
                                                       payload, "ok", <<>>))])
    /\ UNCHANGED <<pending_application_commands, last, calls, dispatchVars, func, objects>>

----------------------------------------------------------------------------
(* The registry specification: any sequence of add_application_command,    *)
(* remove_application_command and register_commands, against a remote      *)
(* store that is empty at first.                                           *)

NoBot == [ check_once |-> 0, checks |-> 0, before_invoke |-> FALSE, after_invoke |-> FALSE,
           listener |-> FALSE, debug_guilds |-> <<>> ]

Init ==
    /\ cmds = <<>>
    /\ pending_application_commands = <<>>
    /\ application_commands = <<>>
    /\ key_order = <<>>
    /\ \E debug_guilds \in {<<>>, <<1>>} : bot = [NoBot EXCEPT !.debug_guilds = debug_guilds]
    /\ runs = <<>>
    /\ \E by_name \in BOOLEAN :
         remote = [ globals |-> <<>>, guilds |-> [g \in Range(Guilds) |-> <<>>],
                    next_id |-> 1, by_name |-> by_name ]
    /\ sync = IdleSync
    /\ last = Returned("__init__", 0)
    /\ calls = 0
    /\ func = NoFunc
    /\ objects = NoObjects

Next ==
    \/ \E c \in Declared : add_application_command(c)
    \/ \E o \in 1..Len(cmds) : remove_application_command(o)
    \/ \E q \in Lookups : get_application_command(q[1], q[2])
    \/ \E outcome \in {"ok", "Forbidden"} : register_commands_global(outcome)
    \/ \E outcome \in {"ok", "ForbiddenCommands", "ForbiddenPermissions"}, app \in Apps :
         register_commands_guild(outcome, app)

Spec == Init /\ [][Next]_vars

----------------------------------------------------------------------------
(* The decorator specification: up to MaxDecorators permission decorators  *)
(* are applied to one callback, which is then made a command.              *)

RoleItems == { [id |-> "r7", symbolic |-> FALSE], [id |-> "Admin", symbolic |-> TRUE] }
RoleLists == { <<>>, <<[id |-> "r7", symbolic |-> FALSE]>>,
               <<[id |-> "Admin", symbolic |-> TRUE], [id |-> "r8", symbolic |-> FALSE]>> }

\* one decorator application: f is the callback it returns, asked the
\* overwrites it was called to declare
Decorate(f, asked) ==
    /\ func.pc = "function"
    /\ Len(func.declared) + Len(asked) <= MaxDecorators
    /\ func' = [f EXCEPT !.declared = func.declared \o asked]
    /\ UNCHANGED <<registryVars, dispatchVars, objects>>

ApplyPermission(role_id, user_id, allow) ==
    Decorate(permission_decorator(func, role_id, user_id, allow, 0),
             IF role_id # None THEN <<Permission(role_id, FALSE, 1, allow, 0)>>
             ELSE IF user_id # None THEN <<Permission(user_id, FALSE, 2, allow, 0)>>
             ELSE <<>>)
HasRole(item) ==
    Decorate(has_role(func, item, 0), <<PermissionFor(item, 1, TRUE, 0)>>)
HasAnyRole(items) ==
    Decorate(has_any_role(func, items, 0, 1),
             [k \in 1..Len(items) |-> PermissionFor(items[k], 1, TRUE, 0)])
IsUser(user) ==
    Decorate(is_user(func, user, 0), <<Permission(user, FALSE, 2, TRUE, 0)>>)
IsOwner ==
    Decorate(is_owner(func, 0), <<Permission("owner", TRUE, 2, TRUE, 0)>>)

\* slash_command(...)(func): the command is made from the callback
MakeCommand ==
    /\ func.pc = "function"
    /\ cmds' = Append(cmds, SlashCommand("f", FALSE, <<>>, command_permissions(func, <<>>), 0))
    /\ func' = [func EXCEPT !.pc = "command"]
    /\ UNCHANGED <<pending_application_commands, application_commands, key_order, remote, sync,
                   last, calls, dispatchVars, objects>>

InitDecorators ==
    /\ cmds = <<>>
    /\ pending_application_commands = <<>>
    /\ application_commands = <<>>
    /\ key_order = <<>>
    /\ bot = NoBot
    /\ runs = <<>>
    /\ remote = [ globals |-> <<>>, guilds |-> [g \in Range(Guilds) |-> <<>>],
                  next_id |-> 1, by_name |-> TRUE ]
    /\ sync = IdleSync
    /\ last = Returned("__init__", 0)
    /\ calls = 0
    /\ func = NoFunc
    /\ objects = NoObjects

NextDecorators ==
    \/ \E role_id \in {None, "r5"}, user_id \in {None, "v1"}, allow \in BOOLEAN :
         ApplyPermission(role_id, user_id, allow)
    \/ \E item \in RoleItems : HasRole(item)
    \/ \E items \in RoleLists : HasAnyRole(items)
    \/ IsUser("v2")
    \/ IsOwner
    \/ MakeCommand

SpecDecorators == InitDecorators /\ [][NextDecorators]_vars

----------------------------------------------------------------------------
(* The dispatch pipeline, as functions on the record r of one interaction  *)
(* and the command c it resolved to. r.pc names the user coroutine that is *)
(* awaited next, or "returned"/"raised" once process_application_commands  *)
(* has ended.                                                              *)

Log(r, event, outcome) == [r EXCEPT !.trace = Append(@, <<event, outcome>>)]

\* what an ApplicationContext has: the attributes __init__ sets and the
\* properties and methods of the class
ApplicationContextAttributes ==
    {"bot", "interaction", "command", "_state", "_get_channel", "channel", "channel_id", "guild",
     "guild_id", "message", "user", "voice_client", "response", "author", "respond", "defer",
     "followup", "delete", "edit"}

\* BotBase.on_application_command_error(context, exception), the default
\* handler of the notification: silent when a listener of the event is
\* registered or the command has an error handler; otherwise it reads
\* context.cog and, unless a cog handler exists, prints the traceback. An
\* exception of the handler stays in the event machinery.
on_application_command_error(r, c) ==
    IF bot.listener THEN r
    ELSE IF has_error_handler(c) THEN r
    ELSE IF "cog" \notin ApplicationContextAttributes
    THEN Log(r, "on_application_command_error", "AttributeError")
    ELSE IF c.cog.present /\ c.cog.cog_command_error THEN r
    ELSE Log(r, "print_exception", r.error.cls)

\* BotBase.dispatch('application_command_error', ctx, error): the handler
\* method of the event, then the listeners registered for it.
dispatch_application_command_error(r, c) ==
    LET r1 == on_application_command_error(Log(r, "application_command_error", r.error.cls), c)
    IN  IF bot.listener THEN Log(r1, "listener", r.error.cls) ELSE r1

\* Mutant of dispatch_error_finally: the notification is emitted after the
\* try statement instead of in its finally clause.
dispatch_error_finally_after_try(r, e) ==
    IF e = NoExc
    THEN [dispatch_application_command_error(r, cmds[r.ctx.command]) EXCEPT !.pc = "returned"]
    ELSE [r EXCEPT !.pc = "raised", !.exc = e]

\* dispatch_error, the finally clause: the global notification, then the
\* exception of the cog handler (if any) goes on to the caller.
dispatch_error_finally(r, e) ==
    LET r1 == dispatch_application_command_error(r, cmds[r.ctx.command])
    IN  IF e = NoExc THEN [r1 EXCEPT !.pc = "returned"]
        ELSE [r1 EXCEPT !.pc = "raised", !.exc = e]

\* dispatch_error, the second try: the cog-level handler, when overridden.
dispatch_error_cog(r, c) ==
    IF c.cog.present /\ c.cog.cog_command_error
    THEN [r EXCEPT !.pc = "cog_command_error"]
    ELSE dispatch_error_finally(r, NoExc)

\* dispatch_error, the start: the command-local handler is read from the
\* attribute in_error.
dispatch_error(r, c, e) ==
    LET r1 == Log([r EXCEPT !.ctx.command_failed = TRUE, !.error = e],
                  "dispatch_error", e.cls)
    IN  IF "in_error" \in c.attrs
        THEN [r1 EXCEPT !.pc = "in_error"]
        ELSE dispatch_error_cog(r1, c)

\* wrap_callback around an error handler that ended with outcome o: what
\* the wrapper raises (NoExc when it returns).
wrap_callback(o) ==
    IF o = "ok" THEN NoExc
    ELSE IF o \in ApplicationCommandErrors THEN Exc(o, "None")
    ELSE IF o = "CancelledError" THEN NoExc
    ELSE ApplicationCommandInvokeError(Exc(o, "None"))

\* process_application_commands, the try around can_run and invoke ending
\* with exception e (NoExc: the else clause).
try_invoke(r, c, e) ==
    IF e = NoExc
    THEN [Log(r, "application_command_completion", "None") EXCEPT !.pc = "returned", !.exc = NoExc]
    ELSE IF IsDiscordException(e)
    THEN dispatch_error([r EXCEPT !.exc = NoExc], c, e)
    ELSE [r EXCEPT !.pc = "raised", !.exc = e]

\* call_after_hooks, third part: the bot-level hook.
call_after_hooks_bot(r, c) ==
    IF bot.after_invoke THEN [r EXCEPT !.pc = "bot_after_invoke"]
    ELSE try_invoke(r, c, r.exc)

\* call_after_hooks, second part: with a cog the argument ctx.cog_after_invoke
\* is evaluated, an attribute ApplicationContext does not have.
call_after_hooks_cog(r, c) ==
    IF c.cog.present THEN try_invoke(r, c, Exc("AttributeError", "None"))
    ELSE call_after_hooks_bot(r, c)

\* Mutant of call_after_hooks: the after-hooks are awaited after the try
\* statement instead of in its finally clause, so a raising callback skips them.
call_after_hooks_after_try(r, c) ==
    IF r.exc # NoExc THEN try_invoke(r, c, r.exc)
    ELSE IF c.after_invoke THEN [r EXCEPT !.pc = "after_invoke"]
    ELSE call_after_hooks_cog(r, c)

\* call_after_hooks, first part: the command's own hook.
call_after_hooks(r, c) ==
    IF c.after_invoke THEN [r EXCEPT !.pc = "after_invoke"]
    ELSE call_after_hooks_cog(r, c)

\* hooked_wrapped_callback: the callback ended with outcome o; r.exc holds
\* what the except clauses leave in flight while the finally clause runs.
hooked_wrapped_callback(r, c, o) ==
    LET inflight == IF o = "ok" THEN NoExc
                    ELSE IF o \in ApplicationCommandErrors THEN Exc(o, "None")
                    ELSE IF o = "CancelledError" THEN NoExc
                    ELSE ApplicationCommandInvokeError(Exc(o, "None"))
    IN  call_after_hooks([Log(r, "callback", o) EXCEPT !.exc = inflight], c)

\* call_before_hooks: command hook, cog hook, bot hook, then the callback.
call_before_hooks_bot(r, c) ==
    IF bot.before_invoke THEN [r EXCEPT !.pc = "bot_before_invoke"]
    ELSE [r EXCEPT !.pc = "callback"]

call_before_hooks_cog(r, c) ==
    IF c.cog.present /\ c.cog.cog_before_invoke THEN [r EXCEPT !.pc = "cog_before_invoke"]
    ELSE call_before_hooks_bot(r, c)

call_before_hooks(r, c) ==
    IF c.before_invoke THEN [r EXCEPT !.pc = "before_invoke"]
    ELSE call_before_hooks_cog(r, c)

\* ApplicationCommand.can_run, second half: the command's own checks from
\* the k-th on; prepare goes on to the before-hooks when all returned true.
command_checks(r, c, k) ==
    IF k <= c.checks THEN [r EXCEPT !.pc = "command_check", !.idx = k]
    ELSE call_before_hooks([r EXCEPT !.idx = 0], c)

\* Mutant of global_checks: the bot's checks are not evaluated.
global_checks_skipped(r, c, k) == command_checks(r, c, 1)

\* ApplicationCommand.can_run, first half: ctx.bot.can_run(ctx), the global
\* checks from the k-th on.
global_checks(r, c, k) ==
    IF k <= bot.checks THEN [r EXCEPT !.pc = "check", !.idx = k]
    ELSE command_checks(r, c, 1)

\* BotBase.can_run(ctx, call_once=True) from the k-th once-check on; when
\* all returned true, ctx.command.invoke(ctx) starts with prepare.
once_checks(r, c, k) ==
    IF k <= bot.check_once THEN [r EXCEPT !.pc = "check_once", !.idx = k]
    ELSE global_checks(r, c, 1)

\* Mutant of check_failed: a predicate that returned false is passed over
\* and the invocation goes on with the before-hooks.
check_failed_ignored(r, c, o) ==
    IF o = "False" THEN call_before_hooks([r EXCEPT !.idx = 0], c)
    ELSE try_invoke(r, c, Exc(o, "None"))

\* A check predicate ended with outcome o other than true: false makes the
\* caller raise CheckFailure, an exception of the predicate passes through.
check_failed(r, c, o) ==
    IF o = "False" THEN try_invoke(r, c, Exc("CheckFailure", "None"))
    ELSE try_invoke(r, c, Exc(o, "None"))

\* Mutant of process_application_commands: the application_command
\* notification is emitted before the command is looked up.
process_application_commands_notify_first(r, t, id) ==
    LET r0 == [r EXCEPT !.interaction = [type |-> t, id |-> id]]
        r1 == Log(r0, "application_command", "None")
    IN  IF t \notin {"application_command", "auto_complete"}
        THEN [r0 EXCEPT !.pc = "returned"]
        ELSE IF id \notin DOMAIN application_commands
        THEN [Log(r1, "unknown_command", "None") EXCEPT !.pc = "returned"]
        ELSE IF t = "auto_complete"
        THEN [Log(r0, "invoke_autocomplete_callback", "AttributeError")
                EXCEPT !.pc = "raised", !.exc = Exc("AttributeError", "None")]
        ELSE LET o == application_commands[id]
             IN  once_checks([r1 EXCEPT !.ctx = [command |-> o, command_failed |-> FALSE]],
                             cmds[o], 1)

\* process_application_commands up to the first await of user code, for an
\* interaction of type t whose data carries the command id.
process_application_commands(r, t, id) ==
    LET r0 == [r EXCEPT !.interaction = [type |-> t, id |-> id]]
    IN  IF t \notin {"application_command", "auto_complete"}
        THEN [r0 EXCEPT !.pc = "returned"]
        ELSE IF id \notin DOMAIN application_commands
        THEN [Log(r0, "unknown_command", "None") EXCEPT !.pc = "returned"]
        ELSE IF t = "auto_complete"
        \* no class of commands.py defines invoke_autocomplete_callback
        THEN [Log(r0, "invoke_autocomplete_callback", "AttributeError")
                EXCEPT !.pc = "raised", !.exc = Exc("AttributeError", "None")]
        ELSE LET o == application_commands[id]
                 r1 == Log([r0 EXCEPT !.ctx = [command |-> o, command_failed |-> FALSE]],
                           "application_command", "None")
             IN  once_checks(r1, cmds[o], 1)

----------------------------------------------------------------------------
(* Actions of the dispatch pipeline: one per await of user code *)

Interactions == DOMAIN runs
Cmd(i) == cmds[runs[i].ctx.command]
InteractionTypes == {"application_command", "auto_complete", "component"}
\* ids an interaction may carry: the registered ones and one unknown id
InteractionIds == DOMAIN application_commands \cup {99}

\* Mutant of Set: the context is kept in one place for all interactions,
\* so a step of one interaction overwrites the context of the others.
Set_shared_context(i, r) ==
    /\ runs' = [j \in DOMAIN runs |-> IF j = i THEN r ELSE [runs[j] EXCEPT !.ctx = r.ctx]]
    /\ UNCHANGED <<bot, func, objects, registryVars>>

\* a step of interaction i: only its own record changes (its context is
\* the object get_application_context built for it)
Set(i, r) ==
    /\ runs' = [runs EXCEPT ![i] = r]
    /\ UNCHANGED <<bot, func, objects, registryVars>>

Receive(i) ==
    /\ runs[i].pc = "received"
    /\ \E t \in InteractionTypes, id \in InteractionIds :
         Set(i, process_application_commands(runs[i], t, id))

CheckOnce(i) ==
    /\ runs[i].pc = "check_once"
    /\ \E o \in CheckOutcomes :
         LET r1 == Log(runs[i], "check_once", o)
         IN  Set(i, IF o = "True" THEN once_checks(r1, Cmd(i), r1.idx + 1)
                    ELSE check_failed(r1, Cmd(i), o))

GlobalCheck(i) ==
    /\ runs[i].pc = "check"
    /\ \E o \in CheckOutcomes :
         LET r1 == Log(runs[i], "check", o)
         IN  Set(i, IF o = "True" THEN global_checks(r1, Cmd(i), r1.idx + 1)
                    ELSE check_failed(r1, Cmd(i), o))

CommandCheck(i) ==
    /\ runs[i].pc = "command_check"
    /\ \E o \in CheckOutcomes :
         LET r1 == Log(runs[i], "command_check", o)
         IN  Set(i, IF o = "True" THEN command_checks(r1, Cmd(i), r1.idx + 1)
                    ELSE check_failed(r1, Cmd(i), o))

BeforeInvoke(i) ==
    /\ runs[i].pc = "before_invoke"
    /\ \E o \in HookOutcomes :
         LET r1 == Log(runs[i], "before_invoke", o)
         IN  Set(i, IF o = "ok" THEN call_before_hooks_cog(r1, Cmd(i))
                    ELSE try_invoke(r1, Cmd(i), Exc(o, "None")))

CogBeforeInvoke(i) ==
    /\ runs[i].pc = "cog_before_invoke"
    /\ \E o \in HookOutcomes :
         LET r1 == Log(runs[i], "cog_before_invoke", o)
         IN  Set(i, IF o = "ok" THEN call_before_hooks_bot(r1, Cmd(i))
                    ELSE try_invoke(r1, Cmd(i), Exc(o, "None")))

BotBeforeInvoke(i) ==
    /\ runs[i].pc = "bot_before_invoke"
    /\ \E o \in HookOutcomes :
         LET r1 == Log(runs[i], "bot_before_invoke", o)
         IN  Set(i, IF o = "ok" THEN [r1 EXCEPT !.pc = "callback"]
                    ELSE try_invoke(r1, Cmd(i), Exc(o, "None")))

Callback(i) ==
    /\ runs[i].pc = "callback"
    /\ \E o \in HookOutcomes :
         Set(i, hooked_wrapped_callback(runs[i], Cmd(i), o))

\* an exception raised inside the finally clause replaces the one in flight
AfterInvoke(i) ==
    /\ runs[i].pc = "after_invoke"
    /\ \E o \in HookOutcomes :
         LET r1 == Log(runs[i], "after_invoke", o)
         IN  Set(i, IF o = "ok" THEN call_after_hooks_cog(r1, Cmd(i))
                    ELSE try_invoke(r1, Cmd(i), Exc(o, "None")))

BotAfterInvoke(i) ==
    /\ runs[i].pc = "bot_after_invoke"
    /\ \E o \in HookOutcomes :
         LET r1 == Log(runs[i], "bot_after_invoke", o)
         IN  Set(i, IF o = "ok" THEN try_invoke(r1, Cmd(i), r1.exc)
                    ELSE try_invoke(r1, Cmd(i), Exc(o, "None")))

\* dispatch_error awaiting a wrapped error handler: the command-local one
\* is called outside the try/finally, the cog one inside it.
ErrorHandler(i) ==
    /\ runs[i].pc \in {"in_error", "cog_command_error"}
    /\ \E o \in HookOutcomes :
         LET r1 == Log(runs[i], runs[i].pc, o)
             e  == wrap_callback(o)
         IN  Set(i, IF runs[i].pc = "cog_command_error" THEN dispatch_error_finally(r1, e)
                    ELSE IF e = NoExc THEN dispatch_error_cog(r1, Cmd(i))
                    ELSE [r1 EXCEPT !.pc = "raised", !.exc = e])

----------------------------------------------------------------------------
(* The dispatch specification: one registered command, every combination   *)
(* of hooks, handlers and check lists, one inbound interaction.            *)

NewRun == [ pc |-> "received", idx |-> 0,
            interaction |-> [type |-> "None", id |-> 0],
            ctx |-> [command |-> 0, command_failed |-> FALSE],
            exc |-> NoExc, error |-> NoExc, trace |-> <<>> ]

Ping == SlashCommand("ping", FALSE, <<>>, <<>>, 0)

\* the commands the decorators can build around one callback
DispatchCommands ==
    { [ [ [c EXCEPT !.id = 42] EXCEPT !.checks = k ] EXCEPT !.cog = g ] :
        c \in { Ping, error(Ping), before_invoke(Ping), after_invoke(Ping),
                before_invoke(after_invoke(Ping)), error(before_invoke(Ping)),
                error(after_invoke(Ping)), error(before_invoke(after_invoke(Ping))) },
        k \in 0..MaxChecks, g \in Cogs }

Bots == [ check_once : 0..MaxChecks, checks : 0..MaxChecks,
          before_invoke : BOOLEAN, after_invoke : BOOLEAN, listener : BOOLEAN,
          debug_guilds : {<<>>} ]

InitDispatch ==
    /\ \E c \in DispatchCommands : cmds = (1 :> c)
    /\ pending_application_commands = <<1>>
    /\ application_commands = (42 :> 1)
    /\ key_order = <<42>>
    /\ bot \in Bots
    /\ runs = (1 :> NewRun)
    /\ remote = [ globals |-> <<[id |-> 42, name |-> "ping", type |-> 1, guild_id |-> 0]>>,
                  guilds |-> [g \in Range(Guilds) |-> <<>>],
                  next_id |-> 43, by_name |-> TRUE ]
    /\ sync = IdleSync
    /\ last = Returned("__init__", 0)
    /\ calls = 0
    /\ func = NoFunc
    /\ objects = NoObjects

NextDispatch ==
    \/ \E i \in Interactions : Receive(i)
    \/ \E i \in Interactions : CheckOnce(i)
    \/ \E i \in Interactions : GlobalCheck(i)
    \/ \E i \in Interactions : CommandCheck(i)
    \/ \E i \in Interactions : BeforeInvoke(i)
    \/ \E i \in Interactions : CogBeforeInvoke(i)
    \/ \E i \in Interactions : BotBeforeInvoke(i)
    \/ \E i \in Interactions : Callback(i)
    \/ \E i \in Interactions : AfterInvoke(i)
    \/ \E i \in Interactions : BotAfterInvoke(i)
    \/ \E i \in Interactions : ErrorHandler(i)

SpecDispatch == InitDispatch /\ [][NextDispatch]_vars

----------------------------------------------------------------------------
(* The concurrent dispatch specification: two interactions processed by    *)
(* tasks of one event loop, interleaved at every await of user code, on a  *)
(* bot with a check of each kind and both hooks, with two registered       *)
(* commands: one outside any cog, one in a cog that overrides both hooks.  *)

Pong == [SlashCommand("pong", FALSE, <<>>, <<>>, 1)
           EXCEPT !.cog = [present |-> TRUE, cog_before_invoke |-> TRUE, cog_command_error |-> TRUE]]

InitConcurrent ==
    /\ cmds = << [before_invoke(after_invoke(Ping)) EXCEPT !.id = 42, !.checks = 1],
                 [before_invoke(Pong) EXCEPT !.id = 43] >>
    /\ pending_application_commands = <<1, 2>>
    /\ application_commands = (42 :> 1) @@ (43 :> 2)
    /\ key_order = <<42, 43>>
    /\ bot = [NoBot EXCEPT !.check_once = 1, !.checks = 1, !.before_invoke = TRUE,
                           !.after_invoke = TRUE]
    /\ runs = (1 :> NewRun) @@ (2 :> NewRun)
    /\ remote = [ globals |-> <<[id |-> 42, name |-> "ping", type |-> 1, guild_id |-> 0],
                                [id |-> 43, name |-> "pong", type |-> 1, guild_id |-> 0]>>,
                  guilds |-> [g \in Range(Guilds) |-> <<>>],
                  next_id |-> 44, by_name |-> TRUE ]
    /\ sync = IdleSync
    /\ last = Returned("__init__", 0)
    /\ calls = 0
    /\ func = NoFunc
    /\ objects = NoObjects

SpecConcurrent == InitConcurrent /\ [][NextDispatch]_vars

----------------------------------------------------------------------------
(* Properties of the dispatch pipeline (checked under SpecDispatch) *)

\* positions of an event in the trace of one interaction
Pos(r, event) == { k \in 1..Len(r.trace) : r.trace[k][1] = event }
Count(r, event) == Cardinality(Pos(r, event))
Ended(r) == r.pc \in {"returned", "raised"}
Resolved(r) == r.ctx.command # 0

\* C1: for a command with a before-hook B and an after-hook A, B has run
\* (and returned) before the callback C starts, A is the next thing run
\* after C whether C returned or raised, and an error of C reaches
\* dispatch_error only after A has run: B, C, A, error.
C1_HookOrdering ==
    \A i \in Interactions :
      LET r == runs[i] IN
      (Resolved(r) /\ Cmd(i).before_invoke /\ Cmd(i).after_invoke) =>
        /\ \A k \in Pos(r, "callback") :
             /\ \E j \in Pos(r, "before_invoke") : j < k /\ r.trace[j][2] = "ok"
             /\ IF k = Len(r.trace) THEN r.pc = "after_invoke"
                ELSE r.trace[k + 1][1] = "after_invoke"
        /\ \A k \in Pos(r, "after_invoke") : k > 1 /\ r.trace[k - 1][1] = "callback"
        /\ \A k \in Pos(r, "dispatch_error") :
             Pos(r, "callback") # {} =>
               \E j \in Pos(r, "after_invoke") :
                 /\ j < k
                 /\ \E m \in Pos(r, "callback") : m < j

\* C1 witness: B, then C raising ValueError, then A, then the error routed.
C1_Witness ==
    \E i \in Interactions :
      LET r == runs[i] IN
      /\ Resolved(r) /\ Cmd(i).before_invoke /\ Cmd(i).after_invoke
      /\ Len(r.trace) >= 5
      /\ \E k \in 1..(Len(r.trace) - 3) :
           /\ r.trace[k] = <<"before_invoke", "ok">>
           /\ r.trace[k + 1] = <<"callback", "ValueError">>
           /\ r.trace[k + 2] = <<"after_invoke", "ok">>
           /\ r.trace[k + 3] = <<"dispatch_error", "ApplicationCommandInvokeError">>

\* C2: process_application_commands never raises to its caller: whatever
\* the checks, hooks, callback and error handlers of an application-command
\* interaction return or raise (a framework exception or an ordinary one),
\* the error is routed through dispatch_error. Stated for a command outside
\* any cog and for user code that is not cancelled.
C2_NeverRaises ==
    \A i \in Interactions :
      LET r == runs[i] IN
      ( /\ r.interaction.type = "application_command"
        /\ Resolved(r) /\ ~Cmd(i).cog.present
        /\ \A k \in 1..Len(r.trace) : r.trace[k][2] # "CancelledError" )
      => r.pc # "raised"

\* C3: when the callback raises a non-framework exception (ValueError) the
\* dispatch ends with exactly one ApplicationCommandInvokeError wrapping it
\* routed to dispatch_error, exactly one application_command_error
\* notification, no completion notification, and a normal return.
C3_ErrorContainment ==
    \A i \in Interactions :
      LET r == runs[i] IN
      (Ended(r) /\ \E k \in Pos(r, "callback") : r.trace[k][2] = "ValueError") =>
        /\ r.pc = "returned"
        /\ Count(r, "dispatch_error") = 1
        /\ r.error = Exc("ApplicationCommandInvokeError", "ValueError")
        /\ Count(r, "application_command_error") = 1
        /\ Count(r, "application_command_completion") = 0

\* C4: every exception routed to dispatch_error is followed by exactly one
\* application_command_error notification, also when an error handler that
\* was called has itself raised; no notification without a routed error.
C4_GlobalNotificationOnce ==
    \A i \in Interactions :
      LET r == runs[i] IN
      /\ Count(r, "dispatch_error") <= 1
      /\ Count(r, "application_command_error") <= Count(r, "dispatch_error")
      /\ \A k \in Pos(r, "application_command_error") :
           \E j \in Pos(r, "dispatch_error") : j < k
      /\ Ended(r) => Count(r, "application_command_error") = Count(r, "dispatch_error")

\* C4 witness: an error handler was called, raised, and the dispatch ended
\* with the one notification emitted.
C4_Witness ==
    \E i \in Interactions :
      LET r == runs[i] IN
      /\ r.pc = "raised"
      /\ \E k \in Pos(r, "cog_command_error") : r.trace[k][2] = "ValueError"
      /\ Count(r, "application_command_error") = 1
      /\ has_error_handler(Cmd(i))

\* C5: for a command with an error handler registered through
\* ApplicationCommand.error, dispatch_error calls that handler first, then
\* the cog handler if there is one, and only then emits the global
\* application_command_error notification.
C5_LocalHookFirst ==
    \A i \in Interactions :
      LET r == runs[i] IN
      (Resolved(r) /\ has_error_handler(Cmd(i))) =>
        \A k \in Pos(r, "application_command_error") :
          \E j \in Pos(r, "in_error") :
            /\ j < k
            /\ \A m \in Pos(r, "cog_command_error") : j < m /\ m < k

\* the events of a trace that are awaits of user code
UserEvents == {"check_once", "check", "command_check", "before_invoke", "cog_before_invoke",
               "bot_before_invoke", "callback", "after_invoke", "bot_after_invoke",
               "in_error", "cog_command_error"}
CheckEvents == {"check_once", "check", "command_check"}

\* C11: an application-command or autocomplete interaction whose id is not
\* a key of _application_commands ends with exactly one unknown_command
\* notification and nothing else: no context command, no application_command
\* notification, no user code, a normal return.
C11_UnknownCommand ==
    \A i \in Interactions :
      LET r == runs[i] IN
      ( /\ r.pc # "received"
        /\ r.interaction.type \in {"application_command", "auto_complete"}
        /\ r.interaction.id \notin DOMAIN application_commands )
      => /\ r.trace = << <<"unknown_command", "None">> >>
         /\ r.pc = "returned"
         /\ r.ctx.command = 0

\* C11 witness: an autocomplete interaction with an unknown id was processed
\* while a command is registered under another id.
C11_Witness ==
    \E i \in Interactions :
      /\ runs[i].pc = "returned"
      /\ runs[i].interaction.type = "auto_complete"
      /\ runs[i].interaction.id \notin DOMAIN application_commands
      /\ Count(runs[i], "unknown_command") = 1
      /\ DOMAIN application_commands # {}

\* C12: once a check (once-check, global check or command check) has
\* returned false, no before-hook, callback or after-hook runs for that
\* interaction, no further check is awaited, a CheckFailure is routed to
\* dispatch_error, no completion notification is emitted, and the dispatch
\* ends with exactly one application_command_error notification.
C12_CheckFailure ==
    \A i \in Interactions :
      LET r == runs[i] IN
      \A k \in 1..Len(r.trace) :
        (r.trace[k][1] \in CheckEvents /\ r.trace[k][2] = "False") =>
          /\ \A j \in 1..Len(r.trace) :
               r.trace[j][1] \in UserEvents \ {"in_error", "cog_command_error"} => j <= k
          /\ r.pc \notin {"check_once", "check", "command_check", "before_invoke",
                          "cog_before_invoke", "bot_before_invoke", "callback",
                          "after_invoke", "bot_after_invoke"}
          /\ Count(r, "dispatch_error") = 1
          /\ r.trace[k + 1] = <<"dispatch_error", "CheckFailure">>
          /\ r.error = Exc("CheckFailure", "None")
          /\ Count(r, "application_command_completion") = 0
          /\ Count(r, "application_command_error") <= 1
          /\ Ended(r) => Count(r, "application_command_error") = 1

\* C12 witness: a command with a before-hook and an after-hook whose own
\* check returned false after the bot's checks had passed; the dispatch ended.
C12_Witness ==
    \E i \in Interactions :
      LET r == runs[i] IN
      /\ Ended(r) /\ Resolved(r)
      /\ Cmd(i).before_invoke /\ Cmd(i).after_invoke
      /\ \E k \in Pos(r, "command_check") : r.trace[k][2] = "False"
      /\ \E k \in Pos(r, "check_once") : r.trace[k][2] = "True"
      /\ Count(r, "application_command_error") = 1

\* C13: when the callback is cancelled and every other user coroutine of
\* the invocation returns normally, process_application_commands returns,
\* dispatch_error is not called, no error notification is emitted and the
\* completion notification is.
C13_CancellationSwallowed ==
    \A i \in Interactions :
      LET r == runs[i] IN
      ( /\ Ended(r)
        /\ \E k \in Pos(r, "callback") : r.trace[k][2] = "CancelledError"
        /\ \A k \in 1..Len(r.trace) :
             (r.trace[k][1] \in UserEvents \ {"callback"}) => r.trace[k][2] \in {"ok", "True"} )
      => /\ r.pc = "returned"
         /\ Count(r, "dispatch_error") = 0
         /\ Count(r, "application_command_error") = 0
         /\ Count(r, "application_command_completion") = 1

\* C14: for a command with an after-hook, the after-hook is what runs next
\* when the callback returned or raised an exception, and it is not run when
\* the callback ended by cancellation.
C14_AfterHookSkippedOnCancel ==
    \A i \in Interactions :
      LET r == runs[i] IN
      (Resolved(r) /\ Cmd(i).after_invoke) =>
        \A k \in Pos(r, "callback") :
          LET next_is_after == IF k = Len(r.trace) THEN r.pc = "after_invoke"
                               ELSE r.trace[k + 1][1] = "after_invoke"
          IN  IF r.trace[k][2] = "CancelledError" THEN ~next_is_after ELSE next_is_after

\* C20: an autocomplete interaction whose id is registered ends with the
\* command's autocomplete callback called and nothing else: no notification,
\* no check, hook, callback or error routing, and no exception.
C20_AutocompleteOnly ==
    \A i \in Interactions :
      LET r == runs[i] IN
      ( /\ r.pc # "received"
        /\ r.interaction.type = "auto_complete"
        /\ r.interaction.id \in DOMAIN application_commands )
      => /\ r.pc # "raised"
         /\ \A k \in 1..Len(r.trace) : r.trace[k] = <<"invoke_autocomplete_callback", "ok">>

\* the place of each step in the pipeline of one invocation
StepRank ==
    [ e \in {"application_command", "check_once", "check", "command_check", "before_invoke",
             "cog_before_invoke", "bot_before_invoke", "callback", "after_invoke",
             "bot_after_invoke", "application_command_completion", "dispatch_error"} |->
        CASE e = "application_command" -> 1
          [] e = "check_once" -> 2
          [] e = "check" -> 3
          [] e = "command_check" -> 4
          [] e = "before_invoke" -> 5
          [] e = "cog_before_invoke" -> 6
          [] e = "bot_before_invoke" -> 7
          [] e = "callback" -> 8
          [] e = "after_invoke" -> 9
          [] e = "bot_after_invoke" -> 11
          [] OTHER -> 12 ]
Repeat(n, e) == [k \in 1..n |-> e]
Optional(b, e) == IF b THEN <<e>> ELSE <<>>
\* the steps of an invocation of c in which nothing raises
StepsOf(c) ==
    <<"application_command">>
    \o Repeat(bot.check_once, "check_once") \o Repeat(bot.checks, "check")
    \o Repeat(c.checks, "command_check")
    \o Optional(c.before_invoke, "before_invoke")
    \o Optional(c.cog.present /\ c.cog.cog_before_invoke, "cog_before_invoke")
    \o Optional(bot.before_invoke, "bot_before_invoke")
    \o <<"callback">>
    \o Optional(c.after_invoke, "after_invoke")
    \o Optional(bot.after_invoke, "bot_after_invoke")
    \o <<"application_command_completion">>

C27_TracebackPrinted ==
    \A i \in Interactions :
      LET r == runs[i] IN
      Count(r, "application_command_error") > 0 =>
        \/ Count(r, "in_error") > 0
        \/ Count(r, "cog_command_error") > 0
        \/ Count(r, "listener") > 0
        \/ Count(r, "print_exception") > 0

\* the next step of interaction i
Step(i) ==
    \/ Receive(i) \/ CheckOnce(i) \/ GlobalCheck(i) \/ CommandCheck(i) \/ BeforeInvoke(i)
    \/ CogBeforeInvoke(i) \/ BotBeforeInvoke(i) \/ Callback(i) \/ AfterInvoke(i)
    \/ BotAfterInvoke(i) \/ ErrorHandler(i)
\* an await of user code of the interaction ended other than normally
Failed(r) ==
    \E k \in 1..Len(r.trace) :
      r.trace[k][1] \in UserEvents /\ r.trace[k][2] \notin {"ok", "True"}

\* C26 (checked under SpecConcurrent): with two interactions interleaved at
\* every await, each one keeps the context of its own command, runs its own
\* steps in pipeline order, is routed to dispatch_error or ends raising only
\* when user code of its own failed (or its own cog after-hook lookup
\* did), completes only when none of its own did (a swallowed cancellation
\* of its callback aside), and can take its
\* next step until it has ended, whatever state the other one is in.
C26_Independence ==
    \A i \in Interactions :
      LET r == runs[i] IN
      /\ r.pc = "received" => r.ctx = NewRun.ctx /\ r.trace = <<>>
      /\ (r.pc # "received" /\ Resolved(r)) =>
           /\ r.ctx.command = application_commands[r.interaction.id]
           /\ r.ctx.command_failed = (Count(r, "dispatch_error") > 0)
           /\ \A j, k \in 1..Len(r.trace) :
                (j < k /\ r.trace[j][1] \in DOMAIN StepRank
                       /\ r.trace[k][1] \in DOMAIN StepRank) =>
                  \/ StepRank[r.trace[j][1]] < StepRank[r.trace[k][1]]
                  \/ r.trace[j][1] = r.trace[k][1] /\ r.trace[j][1] \in CheckEvents
           /\ Count(r, "dispatch_error") > 0 => Failed(r)
           /\ r.pc = "raised" =>
                \/ Failed(r)
                \/ cmds[r.ctx.command].cog.present /\ r.exc.cls = "AttributeError"
           /\ Count(r, "application_command_completion") > 0 =>
                \A k \in 1..Len(r.trace) :
                  \/ r.trace[k][2] \in {"ok", "True", "None"}
                  \/ r.trace[k] = <<"callback", "CancelledError">>
      /\ ~Ended(r) => ENABLED Step(i)

\* C26 witness: the two interactions went to different commands; the
\* callback of the second raised and that interaction ended raising, while
\* the first ran every step of its own and completed, its context untouched.
C26_Witness ==
    /\ runs[1].pc = "returned" /\ runs[2].pc = "raised"
    /\ runs[1].ctx = [command |-> 1, command_failed |-> FALSE]
    /\ runs[2].ctx.command = 2
    /\ Count(runs[1], "application_command_completion") = 1
    /\ Count(runs[1], "bot_after_invoke") = 1
    /\ Count(runs[2], "application_command_completion") = 0
    /\ Count(runs[2], "cog_before_invoke") = 1
    /\ \E k \in Pos(runs[2], "callback") : runs[2].trace[k][2] = "ValueError"

----------------------------------------------------------------------------
(* The copy specification: a command is made from a callback, with checks  *)
(* attached to the callback by decorators, passed as keyword argument, or  *)
(* absent; hooks and an error handler are set on it; then it and its       *)
(* copies are copied up to MaxCopies times.                                *)

CheckLists == { <<>>, <<"p">>, <<"p", "q">>, <<"p", "q", "r">> }

\* the original command of a callback whose checks were attached as told
Original(attached, checks, c) ==
    LET h0 == IF attached = "decorators"
              THEN [NoObjects EXCEPT !.lists = <<Reverse(checks)>>, !.commands_checks = 1]
              ELSE IF attached = "kwargs"
              THEN [NoObjects EXCEPT !.lists = <<checks>>, !.kwargs_checks = 1]
              ELSE NoObjects
        h1 == SlashCommand_init(h0)
    IN  [h1 EXCEPT !.commands[1] = c @@ [checks |-> h1.commands[1].checks],
                   !.initial = h1.lists[h1.commands[1].checks]]

InitCopy ==
    /\ cmds = <<>>
    /\ pending_application_commands = <<>>
    /\ application_commands = <<>>
    /\ key_order = <<>>
    /\ bot = NoBot
    /\ runs = <<>>
    /\ remote = [ globals |-> <<>>, guilds |-> [g \in Range(Guilds) |-> <<>>],
                  next_id |-> 1, by_name |-> TRUE ]
    /\ sync = IdleSync
    /\ last = Returned("__init__", 0)
    /\ calls = 0
    /\ func = NoFunc
    /\ \E attached \in {"decorators", "kwargs", "none"}, checks \in CheckLists,
          before \in BOOLEAN, after \in BOOLEAN, handler \in BOOLEAN :
         /\ attached = "none" => checks = <<>>
         /\ LET c0 == [before_invoke |-> FALSE, after_invoke |-> FALSE, attrs |-> {}]
                c1 == IF before THEN before_invoke(c0) ELSE c0
                c2 == IF after THEN after_invoke(c1) ELSE c1
                c3 == IF handler THEN error(c2) ELSE c2
            IN  objects = Original(attached, checks, c3)

\* command.copy() on the original or on one of its copies
Copy(self) ==
    /\ Len(objects.commands) <= MaxCopies
    /\ objects' = copy(objects, self)
    /\ UNCHANGED <<registryVars, dispatchVars, func>>

NextCopy == \E self \in 1..Len(objects.commands) : Copy(self)

SpecCopy == InitCopy /\ [][NextCopy]_vars

----------------------------------------------------------------------------
(* Properties of the permission decorators (checked under SpecDecorators) *)

\* C30: the command made from a callback has the overwrites the decorator
\* applications declared, one per application (one per listed role for
\* has_any_role), in application order.
C30_DecoratorsAccumulate ==
    func.pc = "command" => cmds[Len(cmds)].permissions = func.declared

----------------------------------------------------------------------------
(* Properties of copy (checked under SpecCopy) *)

ChecksOf(k) == objects.lists[objects.commands[k].checks]

\* C31: after any number of copy() calls the original command has the
\* checks it was constructed with, in that order, and every copy has the
\* same checks in the same order, the same hooks and the same error
\* handler as the original.
C31_CopyLeavesOriginal ==
    Len(objects.commands) > 1 =>
      /\ ChecksOf(1) = objects.initial
      /\ \A k \in 2..Len(objects.commands) :
           /\ ChecksOf(k) = objects.initial
           /\ objects.commands[k].before_invoke = objects.commands[1].before_invoke
           /\ objects.commands[k].after_invoke = objects.commands[1].after_invoke
           /\ objects.commands[k].attrs = objects.commands[1].attrs

----------------------------------------------------------------------------
(* Properties of the registry and of register_commands (checked under Spec) *)

Calls(call, outcome) ==
    { k \in 1..Len(sync.calls) : sync.calls[k].call = call /\ sync.calls[k].outcome = outcome }
\* the ids the successful upserts before the k-th call of this run returned
WrittenBefore(k) ==
    UNION { { sync.calls[j].response[m].id : m \in 1..Len(sync.calls[j].response) } :
            j \in { j \in 1..(k - 1) :
                      /\ sync.calls[j].call \in {"bulk_upsert_global_commands",
                                                 "bulk_upsert_guild_commands"}
                      /\ sync.calls[j].outcome = "ok" } }
GuildIndex(g) == CHOOSE k \in 1..Len(Guilds) : Guilds[k] = g
DistinctNames ==
    \A j, k \in 1..Len(cmds) : cmds[j].name = cmds[k].name => j = k

\* C6: a register_commands run that follows a completed run with nothing
\* changed in between leaves every command's remote id, the key set of
\* _application_commands and the number of remote commands as the first
\* run left them. Stated for commands of pairwise distinct names.
C6_IdempotentSync ==
    (sync.pc = "returned" /\ sync.before.valid /\ DistinctNames)
      => Snapshot = sync.before

\* C7: when the command upsert of a guild raises Forbidden, no permission
\* upsert is issued for that guild; a guild without payloads is skipped and
\* the loop goes on with the next guild; for a guild with payloads the
\* exception leaves register_commands, no later call is made, and the ids
\* written for the global commands and the earlier guilds stay registered.
C7_GuildUpsertForbidden ==
    \A k \in Calls("bulk_upsert_guild_commands", "Forbidden") :
      LET e == sync.calls[k] IN
      /\ \A j \in 1..Len(sync.calls) :
           ~(sync.calls[j].call = "bulk_upsert_command_permissions" /\ sync.calls[j].guild = e.guild)
      /\ IF e.payload = <<>>
         THEN IF k = Len(sync.calls)
              THEN IF GuildIndex(e.guild) < Len(Guilds)
                   THEN sync.pc = "guilds" /\ sync.k = GuildIndex(e.guild) + 1
                   ELSE sync.pc = "returned"
              ELSE /\ sync.calls[k + 1].call = "bulk_upsert_guild_commands"
                   /\ sync.calls[k + 1].guild = Guilds[GuildIndex(e.guild) + 1]
         ELSE /\ sync.pc = "raised" /\ sync.exc = "Forbidden"
              /\ k = Len(sync.calls)
              /\ WrittenBefore(k) \subseteq DOMAIN application_commands

\* C7 witness: guild 1 had no payload and was skipped, guild 2 had one and
\* its Forbidden ended the run, with a global id written before.
C7_Witness ==
    /\ sync.pc = "raised"
    /\ \E k \in Calls("bulk_upsert_guild_commands", "Forbidden") :
         sync.calls[k].guild = 1 /\ sync.calls[k].payload = <<>>
    /\ \E k \in Calls("bulk_upsert_guild_commands", "Forbidden") :
         sync.calls[k].guild = 2 /\ sync.calls[k].payload # <<>> /\ WrittenBefore(k) # {}

\* C8: a Forbidden from the permission upsert of a guild always leaves
\* register_commands, whether or not the guild had payloads, and no call
\* for a later guild follows it.
C8_PermissionUpsertForbidden ==
    \A k \in Calls("bulk_upsert_command_permissions", "Forbidden") :
      /\ sync.pc = "raised" /\ sync.exc = "Forbidden"
      /\ k = Len(sync.calls)

\* C8 witness: the permission upsert of guild 1, which had no payloads,
\* was Forbidden while guild 2 still had payloads to send.
C8_Witness ==
    /\ sync.pc = "raised"
    /\ \E k \in Calls("bulk_upsert_command_permissions", "Forbidden") :
         /\ sync.calls[k].guild = 1
         /\ sync.update_guild_commands[1] = <<>>
         /\ sync.update_guild_commands[2] # <<>>

GlobalPending == SelectSeq(pending_application_commands, LAMBDA o : ~cmds[o].scoped)
DistinctGlobalNames ==
    \A j, k \in 1..Len(GlobalPending) :
       (cmds[GlobalPending[j]].name = cmds[GlobalPending[k]].name
        /\ cmds[GlobalPending[j]].type = cmds[GlobalPending[k]].type) => j = k
\* after a completed run: the k-th command the global upsert returned
\* belongs to the k-th pending global command, which carries the returned
\* id and is what _application_commands resolves that id to
GlobalIdsWrittenBack ==
    LET cmds_ == sync.calls[2].response IN
    /\ Len(cmds_) = Len(GlobalPending)
    /\ \A k \in 1..Len(cmds_) :
         /\ cmds[GlobalPending[k]].id = cmds_[k].id
         /\ cmds_[k].id \in DOMAIN application_commands
         /\ application_commands[cmds_[k].id] = GlobalPending[k]

\* C9 as stated: after a successful register_commands every command the
\* global upsert returned is registered under its id as the pending command
\* that produced it, for every set of pending global commands.
C9_GlobalWriteBack_AnyNames ==
    sync.pc = "returned" => GlobalIdsWrittenBack

\* C9 amended: the same, for pending global commands whose (name, type)
\* pairs are pairwise distinct.
C9_GlobalWriteBack ==
    (sync.pc = "returned" /\ DistinctGlobalNames) => GlobalIdsWrittenBack

\* C9 witness: a completed run that registered two global commands.
C9_Witness ==
    /\ sync.pc = "returned" /\ DistinctGlobalNames
    /\ Len(GlobalPending) = 2
    /\ GlobalIdsWrittenBack

\* C10: in every state reached by add_application_command, register_commands
\* and remove_application_command, every key of _application_commands maps
\* to a command whose id is that key, so no command is registered under two
\* keys. Stated for commands of pairwise distinct names, so that it does not
\* rest on what the remote store answers to two payloads of one name.
C10_RemoteIdUnique ==
    DistinctNames =>
      \A id \in DOMAIN application_commands : cmds[application_commands[id]].id = id

\* the last remote call of the run is the permission upsert of a guild,
\* built from the locals guild_permissions and app of that pass
LastPermissionUpsert ==
    /\ sync.calls # <<>>
    /\ sync.calls[Len(sync.calls)].call = "bulk_upsert_command_permissions"
    /\ Len(sync.calls[Len(sync.calls)].payload) = Len(sync.guild_permissions)

\* C15: in the permission upsert of a guild, a command whose resolved
\* overwrites are more than 10 is sent with exactly the first 10 of them, in
\* their order, and a truncation diagnostic is recorded for it; a command
\* with 10 or fewer is sent with all of them and no such diagnostic.
C15_PermissionTruncation ==
    LastPermissionUpsert =>
      LET e == sync.calls[Len(sync.calls)] IN
      \A j \in 1..Len(e.payload) :
        LET resolved == resolve_permissions(sync.guild_permissions[j].permissions,
                                            Roles(e.guild), sync.app, 1)
            sent == e.payload[j].permissions
            diag == <<"more than 10 permission overrides", e.guild, e.payload[j].id>>
        IN  /\ e.payload[j].id = sync.guild_permissions[j].id
            /\ IF Len(resolved) > 10
               THEN /\ Len(sent) = 10
                    /\ \A m \in 1..10 : sent[m] = resolved[m]
                    /\ diag \in sync.diagnostics
               ELSE /\ sent = resolved
                    /\ diag \notin sync.diagnostics

\* C15 witness: in guild 1 the role overwrite and ten user overwrites of a
\* command resolved to 11 entries, of which the first 10 were sent.
C15_Witness ==
    /\ LastPermissionUpsert
    /\ LET e == sync.calls[Len(sync.calls)] IN
       /\ e.outcome = "ok" /\ e.guild = 1
       /\ \E j \in 1..Len(e.payload) :
            /\ Len(sync.guild_permissions[j].permissions) = 11
            /\ Len(e.payload[j].permissions) = 10
            /\ e.payload[j].permissions[1].id = "r11"
            /\ e.payload[j].permissions[10].id = "v9"
            /\ <<"more than 10 permission overrides", 1, e.payload[j].id>> \in sync.diagnostics

\* C16: a command whose only overwrite for the guild is the user overwrite
\* "owner" is sent with one entry per team member, in the team's order, when
\* the application has a team, and with one entry for the owner otherwise;
\* every entry is a user overwrite carrying the allow flag of the overwrite.
C16_OwnerExpansion ==
    LastPermissionUpsert =>
      LET e == sync.calls[Len(sync.calls)] IN
      \A j \in 1..Len(e.payload) :
        LET item == sync.guild_permissions[j]
            sent == e.payload[j].permissions
            entry(id) == [id |-> id, symbolic |-> FALSE, type |-> 2,
                          permission |-> item.permissions[1].permission]
        IN  ( /\ Len(item.permissions) = 1
              /\ item.permissions[1].symbolic
              /\ item.permissions[1].type = 2
              /\ item.permissions[1].id = "owner" )
            => IF sync.app.team # <<>>
               THEN /\ Len(sent) = Len(sync.app.team)
                    /\ \A m \in 1..Len(sent) : sent[m] = entry(sync.app.team[m])
               ELSE sent = <<entry(sync.app.owner)>>

\* C16 witness: the application has a team of three and the "owner"
\* overwrite of a global command was sent as three entries.
C16_Witness ==
    /\ LastPermissionUpsert
    /\ Len(sync.app.team) = 3
    /\ LET e == sync.calls[Len(sync.calls)] IN
       \E j \in 1..Len(e.payload) :
         /\ sync.guild_permissions[j].permissions = <<permission_to_dict(Permission("owner", TRUE, 2, TRUE, 0))>>
         /\ Len(e.payload[j].permissions) = 3
         /\ e.payload[j].permissions[3].id = "u4"

\* C17: every added command is appended to the pending list; with debug
\* guilds configured a command declared without guild_ids has the debug
\* guilds as its guild_ids and a command declared with guild_ids keeps them,
\* so no pending command is global and the global upsert of every run sends
\* no payload; without debug guilds every command stays as declared.
C17_DebugGuilds ==
    /\ pending_application_commands = [k \in 1..Len(cmds) |-> k]
    /\ \A o \in 1..Len(cmds) :
         LET c == [cmds[o] EXCEPT !.id = 0] IN
         IF bot.debug_guilds # <<>>
         THEN /\ c.scoped
              /\ \/ c \in Declared
                 \/ \E d \in Declared :
                      ~d.scoped /\ c = [d EXCEPT !.scoped = TRUE, !.guild_ids = bot.debug_guilds]
         ELSE c \in Declared
    /\ bot.debug_guilds # <<>> =>
         \A k \in 1..Len(sync.calls) :
           sync.calls[k].call = "bulk_upsert_global_commands" => sync.calls[k].payload = <<>>

\* C17 witness: with debug guild 1, a command declared without guild_ids
\* and one declared for guild 2 were added and a run completed.
C17_Witness ==
    /\ bot.debug_guilds = <<1>>
    /\ sync.pc = "returned"
    /\ \E o \in 1..Len(cmds) : cmds[o].name = "a" /\ cmds[o].guild_ids = <<1>> /\ cmds[o].id # 0
    /\ \E o \in 1..Len(cmds) : cmds[o].guild_ids = <<2>> /\ cmds[o].id # 0
    /\ sync.calls[2].call = "bulk_upsert_global_commands" /\ sync.calls[2].payload = <<>>

\* the state right after a registry call: nothing ran since
JustCalled(op) == last.op = op /\ sync.pc = "idle"

\* C18: get_application_command(name, guild_ids) returns a registered
\* command of that name whose guild_ids equal the given list (any command of
\* that name when no list is given) whenever one is registered, and None only
\* when none is, whatever other commands of that name are registered.
C18_GetApplicationCommand ==
    JustCalled("get_application_command") =>
      LET matching ==
            { id \in DOMAIN application_commands :
                LET c == cmds[application_commands[id]] IN
                /\ c.name = last.name
                /\ last.guild_ids.given => (c.scoped /\ c.guild_ids = last.guild_ids.ids) }
      IN  IF matching = {} THEN last.value = 0
          ELSE \E id \in matching : last.value = application_commands[id]

\* C19: remove_application_command raises nothing: it returns the command
\* stored under the id of its argument, which is then no key any more, and
\* returns None when that id is no key.
C19_RemoveAbsent ==
    JustCalled("remove_application_command") =>
      /\ last.raised = "None"
      /\ last.value # 0 =>
           /\ cmds[last.command].id # 0
           /\ cmds[last.command].id \notin DOMAIN application_commands

\* the run of register_commands the state shows has ended
RunEnded == sync.pc \in {"returned", "raised"}
\* some pending command is scoped to a guild that is not among the fetched
ScopeOutsideGuilds ==
    \E o \in Range(pending_application_commands) :
       cmds[o].scoped /\ \E g \in Range(cmds[o].guild_ids) : g \notin Range(Guilds)
\* the pending commands whose guild_ids hold the guild
ScopedPending(g) ==
    SelectSeq(pending_application_commands,
              LAMBDA o : cmds[o].scoped /\ g \in Range(cmds[o].guild_ids))

\* C22: every guild whose command upsert succeeded gets exactly one
\* permission upsert, with one entry per command the command upsert
\* returned followed by one entry per global command; the entry of a global
\* command holds every overwrite of it that carries a concrete id and whose
\* guild_id is unset or is that guild, unless the entry was cut to 10.
C22_PermissionUpsertPerGuild ==
    RunEnded =>
      \A k \in Calls("bulk_upsert_guild_commands", "ok") :
        LET e == sync.calls[k]
            globals == sync.calls[2].response
            ps == { j \in 1..Len(sync.calls) :
                      /\ sync.calls[j].call = "bulk_upsert_command_permissions"
                      /\ sync.calls[j].guild = e.guild }
        IN  /\ ps = {k + 1}
            /\ LET sent == sync.calls[k + 1].payload IN
               /\ Len(sent) = Len(e.response) + Len(globals)
               /\ \A j \in 1..Len(e.response) : sent[j].id = e.response[j].id
               /\ \A j \in 1..Len(globals) :
                    LET entry == sent[Len(e.response) + j] IN
                    /\ entry.id = globals[j].id
                    /\ \A o \in Range(GlobalPending) :
                         cmds[o].id = globals[j].id =>
                           \A perm \in Range(cmds[o].permissions) :
                              (~perm.symbolic /\ perm.guild_id \in {0, e.guild}) =>
                                 \/ permission_to_dict(perm) \in Range(entry.permissions)
                                 \/ Len(entry.permissions) = 10

\* C23: in the permission upsert of a guild, every overwrite that is
\* neither a role overwrite with a string id nor the user overwrite "owner"
\* is sent as it was declared, unless the entry was cut to 10.
C23_PassThrough ==
    LastPermissionUpsert =>
      LET e == sync.calls[Len(sync.calls)] IN
      \A j \in 1..Len(e.payload) :
        \A x \in Range(sync.guild_permissions[j].permissions) :
          ( /\ ~(x.symbolic /\ x.type = 1)
            /\ ~(x.symbolic /\ x.type = 2 /\ x.id = "owner") )
          => \/ \E m \in 1..Len(e.payload[j].permissions) :
                  LET y == e.payload[j].permissions[m] IN
                  y.id = x.id /\ y.type = x.type /\ y.permission = x.permission
             \/ Len(e.payload[j].permissions) = 10

\* C24: every run of register_commands fetches the global commands and then
\* issues exactly one global bulk upsert, with one payload per pending
\* global command in pending order (none when there is none); a payload
\* carries an id exactly when a fetched command has its name and type, and
\* then the id of such a command.
C24_GlobalUpsert ==
    sync.pc # "idle" =>
      /\ { k \in 1..Len(sync.calls) : sync.calls[k].call = "bulk_upsert_global_commands" } = {2}
      /\ sync.calls[1].call = "get_global_commands"
      /\ LET fetched == sync.calls[1].response
             payload == sync.calls[2].payload
         IN  /\ Len(payload) = Len(GlobalPending)
             /\ \A k \in 1..Len(payload) :
                  LET c == cmds[GlobalPending[k]]
                      same == { x \in Range(fetched) : x.name = c.name /\ x.type = c.type }
                  IN  /\ payload[k].name = c.name /\ payload[k].type = c.type
                      /\ IF same = {} THEN payload[k].id = 0
                         ELSE payload[k].id \in { x.id : x \in same }

\* C24 witness: a run whose global upsert sent two payloads, the first with
\* the id of the fetched command of its name, the second without an id.
C24_Witness ==
    /\ sync.pc = "returned"
    /\ Len(sync.calls[1].response) = 1
    /\ Len(sync.calls[2].payload) = 2
    /\ sync.calls[2].payload[1].id = sync.calls[1].response[1].id
    /\ sync.calls[2].payload[1].name = sync.calls[1].response[1].name
    /\ sync.calls[2].payload[2].id = 0

\* C25: in a run that ended without any remote call failing, with every
\* guild id of the pending commands among the fetched guilds, every guild
\* got exactly one command upsert, after the global upsert, whose payloads
\* are those of the pending commands scoped to it, in pending order.
C25_GuildUpserts ==
    ( /\ RunEnded
      /\ \A k \in 1..Len(sync.calls) : sync.calls[k].outcome = "ok"
      /\ ~ScopeOutsideGuilds )
    => \A g \in Range(Guilds) :
         LET ks == { k \in 1..Len(sync.calls) :
                       sync.calls[k].call = "bulk_upsert_guild_commands" /\ sync.calls[k].guild = g }
         IN  /\ Cardinality(ks) = 1
             /\ \A k \in ks :
                  /\ k > 2
                  /\ sync.calls[k].payload =
                       [ m \in 1..Len(ScopedPending(g)) |-> command_to_dict(cmds[ScopedPending(g)[m]]) ]

\* C28: after remove_application_command(command) returned, no key of
\* _application_commands maps to that command. Stated for commands of
\* pairwise distinct names.
C28_RemovedEverywhere ==
    (JustCalled("remove_application_command") /\ last.raised = "None" /\ DistinctNames)
      => \A id \in DOMAIN application_commands : application_commands[id] # last.command

\* C29: when a pending command names a guild that was not fetched and the
\* global upsert succeeded, the run ends with KeyError right after the
\* global write-back: the global upsert is the last remote call and the ids
\* it returned are registered.
C29_UnknownGuildAborts ==
    ( /\ sync.pc # "idle"
      /\ ScopeOutsideGuilds
      /\ sync.calls[2].outcome = "ok" )
    => /\ sync.pc = "raised" /\ sync.exc = "KeyError"
       /\ Len(sync.calls) = 2
       /\ WrittenBefore(3) \subseteq DOMAIN application_commands

\* C29 witness: a run with a global command and a command for guild 9 ended
\* with KeyError, the id of the global command registered.
C29_Witness ==
    /\ sync.pc = "raised" /\ sync.exc = "KeyError"
    /\ ScopeOutsideGuilds
    /\ Len(sync.calls) = 2
    /\ sync.calls[2].payload # <<>>
    /\ WrittenBefore(3) # {}
    /\ WrittenBefore(3) \subseteq DOMAIN application_commands

====
